---- MODULE Spec2Model ----
\* Model of src/undirected_graph.py: the UndirectedGraph container, its
\* adjacency storage (insertion-ordered dicts), the maintained edge counter,
\* the mutation and query methods, copy/swap between two instances, the edge
\* iterator and the two node traversals.
EXTENDS Integers, Sequences, FiniteSets, TLC

\* ---------------------------------------------------------------- bounds
\* Node values used by the calls of the single-graph specification.
MaxNode == 3
\* Node values used by the calls of the two-graph specification.
MaxPairNode == 2
\* Edge payload values used by construct_edge and assign_edge.
MaxPayload == 2

\* Successful construct_edge and remove_edge calls counted in one history.
MaxTally == 5
\* Nodes of the graphs the traversals are checked on.
MaxTravNode == 4

Nodes == 1..MaxNode
PairNodes == 1..MaxPairNode
Payloads == 1..MaxPayload
TravNodes == 1..MaxTravNode

\* The two graph instances a caller holds, and the identities of the dict
\* objects their _adjacency_list fields can refer to.
Graphs == {"g", "h"}
DictIds == 1..Cardinality(Graphs)

\* ------------------------------------------------- insertion-ordered dict
\* A Python dict is a sequence of <<key, value>> entries in insertion order
\* with unique keys.
DictKeys(d) == [i \in 1..Len(d) |-> d[i][1]]

DictKeySet(d) == {d[i][1] : i \in 1..Len(d)}

DictHas(d, k) == \E i \in 1..Len(d) : d[i][1] = k

DictIndex(d, k) == CHOOSE i \in 1..Len(d) : d[i][1] = k

\* d[k] for a key that is present.
DictGet(d, k) == d[DictIndex(d, k)][2]

\* d[k] = v: an existing key keeps its position, a new key is appended.
DictSet(d, k, v) ==
    IF DictHas(d, k)
    THEN [d EXCEPT ![DictIndex(d, k)] = <<k, v>>]
    ELSE Append(d, <<k, v>>)

\* d.pop(k) for a key that is present: the other entries keep their order.
DictPop(d, k) == SelectSeq(d, LAMBDA entry : entry[1] # k)

\* ------------------------------------------------------------------ state
VARIABLES
    \* _adjacency_list[x]: the dict object graph x's field refers to
    _adjacency_list,
    \* _count_edges[x]: graph x's maintained edge counter
    _count_edges,
    \* heap[i]: the contents of dict object i, node -> (neighbor -> payload)
    heap,
    \* the last call made: method, receiver, arguments
    call,
    \* what the last call did: "ok" or the exception raised, and the value returned
    ret,
    \* the fields and dict contents as they were when the last call started
    pre,
    \* tally.k, tally.r: the construct_edge and remove_edge calls on g that
    \* have succeeded so far, where the caller counts them
    tally,
    \* gen: the generator object the caller holds: the method that made it,
    \* its receiver, the graph as it was then, its frame t, and the sequence
    \* the caller's previous generator emitted when it ran the same method to
    \* exhaustion on the same graph (<<>> when there was none)
    gen

vars == <<_adjacency_list, _count_edges, heap, call, ret, pre, tally, gen>>

\* The adjacency map graph x currently holds, and the one it held before the
\* last call.
Adj(x) == heap[_adjacency_list[x]]
PreAdj(x) == pre.heap[pre.adjacency_list[x]]
PreCount(x) == pre.count_edges[x]

\* A method's effect on its receiver: the new adjacency map and counter, how
\* the call ended, and the value it returned.
Raise(d, c, kind) == [adj |-> d, cnt |-> c, outcome |-> kind, value |-> "None"]
Return(d, c, v) == [adj |-> d, cnt |-> c, outcome |-> "ok", value |-> v]

\* ------------------------------------------------------- exception classes
\* The class each exception kind derives from: the five classes of the module
\* derive from Exception; KeyError, AssertionError and RuntimeError are the
\* built-in ones.
ExceptionBase(kind) ==
    CASE kind = "InvalidEdgeError" -> "Exception"
      [] kind = "NodeExistsError" -> "Exception"
      [] kind = "NodeNotExistsError" -> "Exception"
      [] kind = "EdgeExistsError" -> "Exception"
      [] kind = "EdgeNotExistsError" -> "Exception"
      [] kind = "KeyError" -> "LookupError"
      [] kind = "LookupError" -> "Exception"
      [] kind = "AssertionError" -> "Exception"
      [] kind = "RuntimeError" -> "Exception"
      [] kind = "Exception" -> "BaseException"
      [] OTHER -> "object"

\* Whether an exception of class kind is caught by `except cls` (and so by
\* assertRaises(cls)): kind is cls or derives from it.
RECURSIVE IsInstance(_, _)
IsInstance(kind, cls) ==
    IF kind = cls THEN TRUE
    ELSE IF kind \in {"BaseException", "object"} THEN FALSE
    ELSE IsInstance(ExceptionBase(kind), cls)

\* ---------------------------------------------------------------- queries
contains(d, node) == DictHas(d, node)

count_nodes(d) == Len(d)

empty(d) == d = <<>>

has_edge(d, node1, node2) == DictHas(d, node1) /\ DictHas(DictGet(d, node1), node2)

count_edges(d, c) ==
    IF ~(c >= 0) THEN Raise(d, c, "AssertionError") ELSE Return(d, c, c)

degree(d, c, node) ==
    IF ~DictHas(d, node)
    THEN Raise(d, c, "NodeNotExistsError")
    ELSE Return(d, c, Len(DictGet(d, node)))

\* neighbors without its existence check: the lookup itself fails.
neighbors_NoCheck(d, c, node) ==
    IF ~DictHas(d, node)
    THEN Raise(d, c, "KeyError")
    ELSE Return(d, c, DictKeys(DictGet(d, node)))

neighbors(d, c, node) ==
    IF ~DictHas(d, node)
    THEN Raise(d, c, "NodeNotExistsError")
    ELSE Return(d, c, DictKeys(DictGet(d, node)))

insertion_order_node_iter(d) == DictKeys(d)

\* -------------------------------------------------------------- mutations
\* add_node with the assignment ahead of the existence check: a duplicate
\* add resets the node's neighbor map and then raises.
add_node_ResetBeforeCheck(d, c, node) ==
    IF DictHas(d, node)
    THEN Raise(DictSet(d, node, <<>>), c, "NodeExistsError")
    ELSE Return(DictSet(d, node, <<>>), c, "None")

\* add_node that silently accepts a node already present.
add_node_Idempotent(d, c, node) ==
    IF DictHas(d, node)
    THEN Return(d, c, "None")
    ELSE Return(DictSet(d, node, <<>>), c, "None")

add_node(d, c, node) ==
    IF DictHas(d, node)
    THEN Raise(d, c, "NodeExistsError")
    ELSE Return(DictSet(d, node, <<>>), c, "None")

\* The loop of remove_node over the neighbors nbrs[i..] of node: each
\* neighbor's own map drops node. A neighbor that is no top-level key, or
\* whose map does not hold node, makes the lookup or the pop raise KeyError
\* with the earlier pops already applied; popping from the map being iterated
\* (node its own neighbor) makes the loop raise RuntimeError.
RECURSIVE remove_node_loop(_, _, _, _)
remove_node_loop(d, node, nbrs, i) ==
    IF i > Len(nbrs) THEN [adj |-> d, outcome |-> "ok"]
    ELSE LET neighbor == nbrs[i] IN
         IF ~DictHas(d, neighbor) THEN [adj |-> d, outcome |-> "KeyError"]
         ELSE IF ~DictHas(DictGet(d, neighbor), node)
              THEN [adj |-> d, outcome |-> "KeyError"]
         ELSE LET popped == DictSet(d, neighbor, DictPop(DictGet(d, neighbor), node)) IN
              IF neighbor = node
              THEN [adj |-> popped, outcome |-> "RuntimeError"]
              ELSE remove_node_loop(popped, node, nbrs, i + 1)

\* remove_node lowering the counter by one instead of by the node's degree.
remove_node_DecrementOne(d, c, node) ==
    IF ~DictHas(d, node)
    THEN Raise(d, c, "NodeNotExistsError")
    ELSE LET looped == remove_node_loop(d, node, DictKeys(DictGet(d, node)), 1) IN
         IF looped.outcome # "ok"
         THEN Raise(looped.adj, c, looped.outcome)
         ELSE Return(DictPop(looped.adj, node), c - 1, "None")

\* remove_node without its loop over the neighbors.
remove_node_KeepBackReferences(d, c, node) ==
    IF ~DictHas(d, node)
    THEN Raise(d, c, "NodeNotExistsError")
    ELSE Return(DictPop(d, node), c - Len(DictGet(d, node)), "None")

remove_node(d, c, node) ==
    IF ~DictHas(d, node)
    THEN Raise(d, c, "NodeNotExistsError")
    ELSE LET looped == remove_node_loop(d, node, DictKeys(DictGet(d, node)), 1) IN
         IF looped.outcome # "ok"
         THEN Raise(looped.adj, c, looped.outcome)
         ELSE Return(DictPop(looped.adj, node),
                     c - Len(DictGet(looped.adj, node)), "None")

\* construct_edge without its second insertion.
construct_edge_OneDirection(d, c, node1, node2, edge) ==
    IF ~DictHas(d, node1) THEN Raise(d, c, "NodeNotExistsError")
    ELSE IF ~DictHas(d, node2) THEN Raise(d, c, "NodeNotExistsError")
    ELSE IF DictHas(DictGet(d, node1), node2) THEN Raise(d, c, "EdgeExistsError")
    ELSE IF ~(~DictHas(DictGet(d, node2), node1)) THEN Raise(d, c, "AssertionError")
    ELSE IF node1 = node2 THEN Raise(d, c, "InvalidEdgeError")
    ELSE Return(DictSet(d, node1, DictSet(DictGet(d, node1), node2, edge)), c + 1, "None")

\* construct_edge without its self-loop check.
construct_edge_NoSelfLoopCheck(d, c, node1, node2, edge) ==
    IF ~DictHas(d, node1) THEN Raise(d, c, "NodeNotExistsError")
    ELSE IF ~DictHas(d, node2) THEN Raise(d, c, "NodeNotExistsError")
    ELSE IF DictHas(DictGet(d, node1), node2) THEN Raise(d, c, "EdgeExistsError")
    ELSE IF ~(~DictHas(DictGet(d, node2), node1)) THEN Raise(d, c, "AssertionError")
    ELSE LET d1 == DictSet(d, node1, DictSet(DictGet(d, node1), node2, edge))
             d2 == DictSet(d1, node2, DictSet(DictGet(d1, node2), node1, edge))
         IN  Return(d2, c + 1, "None")

\* construct_edge with its self-loop check after the two insertions.
construct_edge_SelfLoopCheckLast(d, c, node1, node2, edge) ==
    IF ~DictHas(d, node1) THEN Raise(d, c, "NodeNotExistsError")
    ELSE IF ~DictHas(d, node2) THEN Raise(d, c, "NodeNotExistsError")
    ELSE IF DictHas(DictGet(d, node1), node2) THEN Raise(d, c, "EdgeExistsError")
    ELSE IF ~(~DictHas(DictGet(d, node2), node1)) THEN Raise(d, c, "AssertionError")
    ELSE LET d1 == DictSet(d, node1, DictSet(DictGet(d, node1), node2, edge))
             d2 == DictSet(d1, node2, DictSet(DictGet(d1, node2), node1, edge))
         IN  IF node1 = node2 THEN Raise(d2, c, "InvalidEdgeError")
             ELSE Return(d2, c + 1, "None")

\* construct_edge creating the endpoints it does not find.
construct_edge_AutoCreate(d, c, node1, node2, edge) ==
    LET e1 == IF DictHas(d, node1) THEN d ELSE DictSet(d, node1, <<>>)
        e2 == IF DictHas(e1, node2) THEN e1 ELSE DictSet(e1, node2, <<>>)
    IN  IF DictHas(DictGet(e2, node1), node2) THEN Raise(d, c, "EdgeExistsError")
        ELSE IF node1 = node2 THEN Raise(d, c, "InvalidEdgeError")
        ELSE LET d1 == DictSet(e2, node1, DictSet(DictGet(e2, node1), node2, edge))
                 d2 == DictSet(d1, node2, DictSet(DictGet(d1, node2), node1, edge))
             IN  Return(d2, c + 1, "None")

construct_edge(d, c, node1, node2, edge) ==
    IF ~DictHas(d, node1) THEN Raise(d, c, "NodeNotExistsError")
    ELSE IF ~DictHas(d, node2) THEN Raise(d, c, "NodeNotExistsError")
    ELSE IF DictHas(DictGet(d, node1), node2) THEN Raise(d, c, "EdgeExistsError")
    ELSE IF ~(~DictHas(DictGet(d, node2), node1)) THEN Raise(d, c, "AssertionError")
    ELSE IF node1 = node2 THEN Raise(d, c, "InvalidEdgeError")
    ELSE LET d1 == DictSet(d, node1, DictSet(DictGet(d, node1), node2, edge))
             d2 == DictSet(d1, node2, DictSet(DictGet(d1, node2), node1, edge))
         IN  Return(d2, c + 1, "None")

\* assign_edge without its second assignment.
assign_edge_OneSided(d, c, node1, node2, edge) ==
    IF ~DictHas(d, node1) THEN Raise(d, c, "NodeNotExistsError")
    ELSE IF ~DictHas(d, node2) THEN Raise(d, c, "NodeNotExistsError")
    ELSE IF ~DictHas(DictGet(d, node2), node1) THEN Raise(d, c, "EdgeNotExistsError")
    ELSE IF ~DictHas(DictGet(d, node1), node2) THEN Raise(d, c, "AssertionError")
    ELSE IF node1 = node2 THEN Raise(d, c, "InvalidEdgeError")
    ELSE Return(DictSet(d, node1, DictSet(DictGet(d, node1), node2, edge)), c, "None")

\* assign_edge counting the update as a new edge.
assign_edge_CountsEdge(d, c, node1, node2, edge) ==
    IF ~DictHas(d, node1) THEN Raise(d, c, "NodeNotExistsError")
    ELSE IF ~DictHas(d, node2) THEN Raise(d, c, "NodeNotExistsError")
    ELSE IF ~DictHas(DictGet(d, node2), node1) THEN Raise(d, c, "EdgeNotExistsError")
    ELSE IF ~DictHas(DictGet(d, node1), node2) THEN Raise(d, c, "AssertionError")
    ELSE IF node1 = node2 THEN Raise(d, c, "InvalidEdgeError")
    ELSE LET d1 == DictSet(d, node1, DictSet(DictGet(d, node1), node2, edge))
             d2 == DictSet(d1, node2, DictSet(DictGet(d1, node2), node1, edge))
         IN  Return(d2, c + 1, "None")

assign_edge(d, c, node1, node2, edge) ==
    IF ~DictHas(d, node1) THEN Raise(d, c, "NodeNotExistsError")
    ELSE IF ~DictHas(d, node2) THEN Raise(d, c, "NodeNotExistsError")
    ELSE IF ~DictHas(DictGet(d, node2), node1) THEN Raise(d, c, "EdgeNotExistsError")
    ELSE IF ~DictHas(DictGet(d, node1), node2) THEN Raise(d, c, "AssertionError")
    ELSE IF node1 = node2 THEN Raise(d, c, "InvalidEdgeError")
    ELSE LET d1 == DictSet(d, node1, DictSet(DictGet(d, node1), node2, edge))
             d2 == DictSet(d1, node2, DictSet(DictGet(d1, node2), node1, edge))
         IN  Return(d2, c, "None")

\* remove_edge without its second pop.
remove_edge_OneSided(d, c, node1, node2) ==
    IF ~DictHas(d, node1) THEN Raise(d, c, "NodeNotExistsError")
    ELSE IF ~DictHas(d, node2) THEN Raise(d, c, "NodeNotExistsError")
    ELSE IF ~DictHas(DictGet(d, node2), node1) THEN Raise(d, c, "EdgeNotExistsError")
    ELSE IF ~DictHas(DictGet(d, node1), node2) THEN Raise(d, c, "AssertionError")
    ELSE IF node1 = node2 THEN Raise(d, c, "InvalidEdgeError")
    ELSE Return(DictSet(d, node1, DictPop(DictGet(d, node1), node2)), c - 1, "None")

\* remove_edge without its decrement of the counter.
remove_edge_KeepCounter(d, c, node1, node2) ==
    IF ~DictHas(d, node1) THEN Raise(d, c, "NodeNotExistsError")
    ELSE IF ~DictHas(d, node2) THEN Raise(d, c, "NodeNotExistsError")
    ELSE IF ~DictHas(DictGet(d, node2), node1) THEN Raise(d, c, "EdgeNotExistsError")
    ELSE IF ~DictHas(DictGet(d, node1), node2) THEN Raise(d, c, "AssertionError")
    ELSE IF node1 = node2 THEN Raise(d, c, "InvalidEdgeError")
    ELSE LET d1 == DictSet(d, node1, DictPop(DictGet(d, node1), node2))
             d2 == DictSet(d1, node2, DictPop(DictGet(d1, node2), node1))
         IN  Return(d2, c, "None")

remove_edge(d, c, node1, node2) ==
    IF ~DictHas(d, node1) THEN Raise(d, c, "NodeNotExistsError")
    ELSE IF ~DictHas(d, node2) THEN Raise(d, c, "NodeNotExistsError")
    ELSE IF ~DictHas(DictGet(d, node2), node1) THEN Raise(d, c, "EdgeNotExistsError")
    ELSE IF ~DictHas(DictGet(d, node1), node2) THEN Raise(d, c, "AssertionError")
    ELSE IF node1 = node2 THEN Raise(d, c, "InvalidEdgeError")
    ELSE LET d1 == DictSet(d, node1, DictPop(DictGet(d, node1), node2))
             d2 == DictSet(d1, node2, DictPop(DictGet(d1, node2), node1))
         IN  Return(d2, c - 1, "None")

clear(d, c) == Return(<<>>, 0, "None")

\* ------------------------------------------------------------ edge iterator
\* The (node, neighbor, payload) entries in the order the nested loops of
\* __iter__ meet them, from the i-th top-level node on.
RECURSIVE iter_entries(_, _)
iter_entries(d, i) ==
    IF i > Len(d) THEN <<>>
    ELSE [j \in 1..Len(d[i][2]) |-> <<d[i][1], d[i][2][j][1], d[i][2][j][2]>>]
         \o iter_entries(d, i + 1)

\* The loop body of __iter__ marking only the ordering it met.
RECURSIVE iter_loop_MarkOneOrdering(_, _, _, _)
iter_loop_MarkOneOrdering(entries, k, visited_edges, yielded) ==
    IF k > Len(entries) THEN yielded
    ELSE LET _node == entries[k][1]
             _neighbor == entries[k][2]
         IN  IF <<_node, _neighbor>> \notin visited_edges
             THEN iter_loop_MarkOneOrdering(entries, k + 1,
                            visited_edges \cup {<<_node, _neighbor>>},
                            Append(yielded, entries[k]))
             ELSE iter_loop_MarkOneOrdering(entries, k + 1, visited_edges, yielded)

\* The loop body of __iter__ over entries[k..]: an entry whose ordered pair is
\* not in visited_edges marks both orderings and is yielded.
RECURSIVE iter_loop(_, _, _, _)
iter_loop(entries, k, visited_edges, yielded) ==
    IF k > Len(entries) THEN yielded
    ELSE LET _node == entries[k][1]
             _neighbor == entries[k][2]
         IN  IF <<_node, _neighbor>> \notin visited_edges
             THEN iter_loop(entries, k + 1,
                            visited_edges \cup {<<_node, _neighbor>>, <<_neighbor, _node>>},
                            Append(yielded, entries[k]))
             ELSE iter_loop(entries, k + 1, visited_edges, yielded)

__iter__(d, c) == Return(d, c, iter_loop(iter_entries(d, 1), 1, {}, <<>>))

\* -------------------------------------------------------------- traversals
\* A traversal in progress: root_idx is the next top-level node the for loop
\* will take as root, pending the stack or queue, visited_nodes the set,
\* yielded the nodes emitted so far; status is "running", "done", or the
\* exception that ended it.
TraversalStart == [root_idx |-> 1, pending |-> <<>>, visited_nodes |-> {},
                   yielded |-> <<>>, status |-> "running"]

\* dfs_node_iter without the visited check on the popped node.
dfs_step_NoVisitedCheck(d, t) ==
    IF t.pending # <<>>
    THEN LET current_node == t.pending[Len(t.pending)]
             popped == SubSeq(t.pending, 1, Len(t.pending) - 1)
             seen == t.visited_nodes \cup {current_node}
         IN  [t EXCEPT !.pending = popped \o
                           SelectSeq(DictKeys(DictGet(d, current_node)),
                                     LAMBDA neighbor : neighbor \notin seen),
                       !.visited_nodes = seen,
                       !.yielded = Append(@, current_node)]
    ELSE IF t.root_idx > Len(d) THEN [t EXCEPT !.status = "done"]
    ELSE LET root == d[t.root_idx][1] IN
         IF root \in t.visited_nodes
         THEN [t EXCEPT !.root_idx = @ + 1]
         ELSE [t EXCEPT !.root_idx = @ + 1, !.pending = <<root>>]

\* dfs_node_iter that pushes no neighbor the stack already holds.
dfs_step_NoDuplicatePush(d, t) ==
    IF t.pending # <<>>
    THEN LET current_node == t.pending[Len(t.pending)]
             popped == SubSeq(t.pending, 1, Len(t.pending) - 1)
         IN  IF current_node \in t.visited_nodes
             THEN [t EXCEPT !.pending = popped]
             ELSE LET seen == t.visited_nodes \cup {current_node}
                      held == {popped[k] : k \in 1..Len(popped)}
                  IN  [t EXCEPT !.pending = popped \o
                                    SelectSeq(DictKeys(DictGet(d, current_node)),
                                              LAMBDA neighbor :
                                                  neighbor \notin seen \cup held),
                                !.visited_nodes = seen,
                                !.yielded = Append(@, current_node)]
    ELSE IF t.root_idx > Len(d) THEN [t EXCEPT !.status = "done"]
    ELSE LET root == d[t.root_idx][1] IN
         IF root \in t.visited_nodes
         THEN [t EXCEPT !.root_idx = @ + 1]
         ELSE [t EXCEPT !.root_idx = @ + 1, !.pending = <<root>>]

\* One iteration of dfs_node_iter: of the while loop when the stack holds
\* something, else of the for loop over the roots.
dfs_step(d, t) ==
    IF t.pending # <<>>
    THEN LET current_node == t.pending[Len(t.pending)]
             popped == SubSeq(t.pending, 1, Len(t.pending) - 1)
         IN  IF current_node \in t.visited_nodes
             THEN [t EXCEPT !.pending = popped]
             ELSE LET seen == t.visited_nodes \cup {current_node} IN
                  IF ~DictHas(d, current_node)
                  THEN [t EXCEPT !.pending = popped, !.visited_nodes = seen,
                                 !.yielded = Append(@, current_node),
                                 !.status = "KeyError"]
                  ELSE [t EXCEPT !.pending = popped \o
                                     SelectSeq(DictKeys(DictGet(d, current_node)),
                                               LAMBDA neighbor : neighbor \notin seen),
                                 !.visited_nodes = seen,
                                 !.yielded = Append(@, current_node)]
    ELSE IF t.root_idx > Len(d) THEN [t EXCEPT !.status = "done"]
    ELSE LET root == d[t.root_idx][1] IN
         IF root \in t.visited_nodes
         THEN [t EXCEPT !.root_idx = @ + 1]
         ELSE [t EXCEPT !.root_idx = @ + 1, !.pending = <<root>>]

RECURSIVE dfs_run(_, _)
dfs_run(d, t) == IF t.status # "running" THEN t ELSE dfs_run(d, dfs_step(d, t))

dfs_node_iter(d, c) ==
    IF Len(d) = 0 THEN Return(d, c, <<>>)
    ELSE LET t == dfs_run(d, TraversalStart) IN
         [adj |-> d, cnt |-> c, value |-> t.yielded,
          outcome |-> IF t.status = "done" THEN "ok" ELSE t.status]

\* bfs_node_iter whose queue pops the entry pushed last.
bfs_step_PopNewest(d, t) ==
    IF t.pending # <<>>
    THEN LET current_node == t.pending[Len(t.pending)]
             popped == SubSeq(t.pending, 1, Len(t.pending) - 1)
         IN  IF current_node \in t.visited_nodes
             THEN [t EXCEPT !.pending = popped]
             ELSE LET seen == t.visited_nodes \cup {current_node} IN
                  [t EXCEPT !.pending = popped \o
                                SelectSeq(DictKeys(DictGet(d, current_node)),
                                          LAMBDA neighbor : neighbor \notin seen),
                            !.visited_nodes = seen,
                            !.yielded = Append(@, current_node)]
    ELSE IF t.root_idx > Len(d) THEN [t EXCEPT !.status = "done"]
    ELSE LET root == d[t.root_idx][1] IN
         IF root \in t.visited_nodes
         THEN [t EXCEPT !.root_idx = @ + 1]
         ELSE [t EXCEPT !.root_idx = @ + 1, !.pending = <<root>>]

\* One iteration of bfs_node_iter: as dfs_step, but the queue pops its front.
bfs_step(d, t) ==
    IF t.pending # <<>>
    THEN LET current_node == t.pending[1]
             popped == SubSeq(t.pending, 2, Len(t.pending))
         IN  IF current_node \in t.visited_nodes
             THEN [t EXCEPT !.pending = popped]
             ELSE LET seen == t.visited_nodes \cup {current_node} IN
                  IF ~DictHas(d, current_node)
                  THEN [t EXCEPT !.pending = popped, !.visited_nodes = seen,
                                 !.yielded = Append(@, current_node),
                                 !.status = "KeyError"]
                  ELSE [t EXCEPT !.pending = popped \o
                                     SelectSeq(DictKeys(DictGet(d, current_node)),
                                               LAMBDA neighbor : neighbor \notin seen),
                                 !.visited_nodes = seen,
                                 !.yielded = Append(@, current_node)]
    ELSE IF t.root_idx > Len(d) THEN [t EXCEPT !.status = "done"]
    ELSE LET root == d[t.root_idx][1] IN
         IF root \in t.visited_nodes
         THEN [t EXCEPT !.root_idx = @ + 1]
         ELSE [t EXCEPT !.root_idx = @ + 1, !.pending = <<root>>]

RECURSIVE bfs_run(_, _)
bfs_run(d, t) == IF t.status # "running" THEN t ELSE bfs_run(d, bfs_step(d, t))

bfs_node_iter(d, c) ==
    IF Len(d) = 0 THEN Return(d, c, <<>>)
    ELSE LET t == bfs_run(d, TraversalStart) IN
         [adj |-> d, cnt |-> c, value |-> t.yielded,
          outcome |-> IF t.status = "done" THEN "ok" ELSE t.status]

\* ------------------------------------------------------------ copy and swap
\* A dict object no graph other than x refers to: the identity of a newly
\* created dict once x's field is rebound.
NewDict(x) == CHOOSE i \in DictIds : \A y \in Graphs \ {x} : _adjacency_list[y] # i

\* copy.deepcopy of an adjacency map: every nested dict is rebuilt entry by
\* entry in iteration order; the payloads are immutable values.
deepcopy(d) == [i \in 1..Len(d) |-> <<d[i][1], [j \in 1..Len(d[i][2]) |-> d[i][2][j]]>>]

\* copy() handing the new graph the original's dict object.
copy_SharedDict(self, result) ==
    [ref |-> _adjacency_list[self],
     adj |-> Adj(self),
     cnt |-> _count_edges[self]]

\* self.copy(), the result bound to the variable result: a new graph whose
\* field refers to a new dict object holding a deep copy.
copy(self, result) ==
    [ref |-> NewDict(result),
     adj |-> deepcopy(Adj(self)),
     cnt |-> _count_edges[self]]

\* swap exchanging the adjacency maps only.
swap_KeepCounters(self, other) ==
    LET tmp_adjacency_list == _adjacency_list[self]
        a1 == [_adjacency_list EXCEPT ![self] = _adjacency_list[other]]
    IN  [adjacency_list |-> [a1 EXCEPT ![other] = tmp_adjacency_list],
         count_edges |-> _count_edges]

\* swap without its temporaries: the second pair of assignments reads the
\* fields the first pair has already overwritten.
swap_NoTemp(self, other) ==
    LET a1 == [_adjacency_list EXCEPT ![self] = _adjacency_list[other]]
        c1 == [_count_edges EXCEPT ![self] = _count_edges[other]]
    IN  [adjacency_list |-> [a1 EXCEPT ![other] = a1[self]],
         count_edges |-> [c1 EXCEPT ![other] = c1[self]]]

\* self.swap(other): the four assignments in order.
swap(self, other) ==
    LET tmp_adjacency_list == _adjacency_list[self]
        tmp_count_edges == _count_edges[self]
        a1 == [_adjacency_list EXCEPT ![self] = _adjacency_list[other]]
        c1 == [_count_edges EXCEPT ![self] = _count_edges[other]]
    IN  [adjacency_list |-> [a1 EXCEPT ![other] = tmp_adjacency_list],
         count_edges |-> [c1 EXCEPT ![other] = tmp_count_edges]]

\* ------------------------------------------------------------------- init
Snapshot == [adjacency_list |-> _adjacency_list,
             count_edges |-> _count_edges,
             heap |-> heap]

\* The caller holds no generator.
NoGenerator == [op |-> "none", self |-> "g", graph |-> <<>>, prev |-> <<>>,
                t |-> [TraversalStart EXCEPT !.status = "none"]]

\* g = UndirectedGraph(); h = UndirectedGraph()
Init ==
    /\ _adjacency_list = [x \in Graphs |-> IF x = "g" THEN 1 ELSE 2]
    /\ _count_edges = [x \in Graphs |-> 0]
    /\ heap = [i \in DictIds |-> <<>>]
    /\ call = [op |-> "__init__", self |-> "g", args |-> <<>>]
    /\ ret = [outcome |-> "ok", value |-> "None"]
    /\ pre = [adjacency_list |-> [x \in Graphs |-> IF x = "g" THEN 1 ELSE 2],
              count_edges |-> [x \in Graphs |-> 0],
              heap |-> [i \in DictIds |-> <<>>]]
    /\ tally = [k |-> 0, r |-> 0]
    /\ gen = NoGenerator

\* The effect r of a method on its receiver self. The dict object is mutated
\* in place, so every graph whose field refers to it sees the change.
Effect(self, r) ==
    /\ heap' = [heap EXCEPT ![_adjacency_list[self]] = r.adj]
    /\ _count_edges' = [_count_edges EXCEPT ![self] = r.cnt]
    /\ UNCHANGED _adjacency_list
    /\ ret' = [outcome |-> r.outcome, value |-> r.value]
    /\ pre' = Snapshot

\* A call the caller does not count.
Apply(self, r) ==
    /\ Effect(self, r)
    /\ UNCHANGED <<tally, gen>>

Call_add_node(self, node) ==
    /\ call' = [op |-> "add_node", self |-> self, args |-> <<node>>]
    /\ Apply(self, add_node(Adj(self), _count_edges[self], node))

Call_remove_node(self, node) ==
    /\ call' = [op |-> "remove_node", self |-> self, args |-> <<node>>]
    /\ Apply(self, remove_node(Adj(self), _count_edges[self], node))

Call_construct_edge(self, node1, node2, edge) ==
    /\ call' = [op |-> "construct_edge", self |-> self, args |-> <<node1, node2, edge>>]
    /\ Apply(self, construct_edge(Adj(self), _count_edges[self], node1, node2, edge))

Call_assign_edge(self, node1, node2, edge) ==
    /\ call' = [op |-> "assign_edge", self |-> self, args |-> <<node1, node2, edge>>]
    /\ Apply(self, assign_edge(Adj(self), _count_edges[self], node1, node2, edge))

Call_remove_edge(self, node1, node2) ==
    /\ call' = [op |-> "remove_edge", self |-> self, args |-> <<node1, node2>>]
    /\ Apply(self, remove_edge(Adj(self), _count_edges[self], node1, node2))

Call_clear(self) ==
    /\ call' = [op |-> "clear", self |-> self, args |-> <<>>]
    /\ Apply(self, clear(Adj(self), _count_edges[self]))

Call_count_edges(self) ==
    /\ call' = [op |-> "count_edges", self |-> self, args |-> <<>>]
    /\ Apply(self, count_edges(Adj(self), _count_edges[self]))

Call_degree(self, node) ==
    /\ call' = [op |-> "degree", self |-> self, args |-> <<node>>]
    /\ Apply(self, degree(Adj(self), _count_edges[self], node))

Call_neighbors(self, node) ==
    /\ call' = [op |-> "neighbors", self |-> self, args |-> <<node>>]
    /\ Apply(self, neighbors(Adj(self), _count_edges[self], node))

\* list(self): the edge iterator run to exhaustion.
Call_iter(self) ==
    /\ call' = [op |-> "__iter__", self |-> self, args |-> <<>>]
    /\ Apply(self, __iter__(Adj(self), _count_edges[self]))

\* list(self.dfs_node_iter()): the traversal run to exhaustion.
Call_dfs_node_iter(self) ==
    /\ call' = [op |-> "dfs_node_iter", self |-> self, args |-> <<>>]
    /\ Apply(self, dfs_node_iter(Adj(self), _count_edges[self]))

\* list(self.bfs_node_iter()): the traversal run to exhaustion.
Call_bfs_node_iter(self) ==
    /\ call' = [op |-> "bfs_node_iter", self |-> self, args |-> <<>>]
    /\ Apply(self, bfs_node_iter(Adj(self), _count_edges[self]))

\* result = self.copy(): the variable result is rebound to the new graph; the
\* graph it held before is dropped.
Call_copy(self, result) ==
    /\ self # result
    /\ LET r == copy(self, result) IN
       /\ _adjacency_list' = [_adjacency_list EXCEPT ![result] = r.ref]
       /\ heap' = [heap EXCEPT ![r.ref] = r.adj]
       /\ _count_edges' = [_count_edges EXCEPT ![result] = r.cnt]
    /\ call' = [op |-> "copy", self |-> self, args |-> <<result>>]
    /\ ret' = [outcome |-> "ok", value |-> result]
    /\ pre' = Snapshot
    /\ UNCHANGED <<tally, gen>>

\* self.swap(other); other may be self.
Call_swap(self, other) ==
    /\ LET r == swap(self, other) IN
       /\ _adjacency_list' = r.adjacency_list
       /\ _count_edges' = r.count_edges
    /\ UNCHANGED heap
    /\ call' = [op |-> "swap", self |-> self, args |-> <<other>>]
    /\ ret' = [outcome |-> "ok", value |-> "None"]
    /\ pre' = Snapshot
    /\ UNCHANGED <<tally, gen>>

\* The frame a call of a generator function makes: its locals start afresh,
\* whatever the frame of an earlier call holds.
new_frame_KeepVisited(earlier) ==
    [TraversalStart EXCEPT !.visited_nodes = earlier.visited_nodes]

new_frame(earlier) == TraversalStart

\* it = self.dfs_node_iter() or self.bfs_node_iter(), named by op: no line of
\* the body runs yet. The caller makes a generator only when the one it holds
\* is not in the middle of its run.
Start_traversal(self, op) ==
    /\ gen.t.status # "running"
    /\ gen' = [op |-> op, self |-> self, graph |-> Adj(self),
               prev |-> IF /\ gen.op = op /\ gen.self = self
                           /\ gen.t.status = "done" /\ gen.graph = Adj(self)
                        THEN <<gen.t.yielded>> ELSE <<>>,
               t |-> new_frame(gen.t)]
    /\ UNCHANGED <<_adjacency_list, _count_edges, heap, call, ret, pre, tally>>

Start_dfs_node_iter(self) ==
    /\ gen.op \in {"none", "dfs_node_iter", "bfs_node_iter"}
    /\ Start_traversal(self, "dfs_node_iter")

Start_bfs_node_iter(self) ==
    /\ gen.op \in {"none", "dfs_node_iter", "bfs_node_iter"}
    /\ Start_traversal(self, "bfs_node_iter")

\* The generator runs one iteration of its loops.
Step_dfs_node_iter ==
    /\ gen.op = "dfs_node_iter" /\ gen.t.status = "running"
    /\ gen' = [gen EXCEPT !.t = dfs_step(Adj(gen.self), gen.t)]
    /\ UNCHANGED <<_adjacency_list, _count_edges, heap, call, ret, pre, tally>>

Step_bfs_node_iter ==
    /\ gen.op = "bfs_node_iter" /\ gen.t.status = "running"
    /\ gen' = [gen EXCEPT !.t = bfs_step(Adj(gen.self), gen.t)]
    /\ UNCHANGED <<_adjacency_list, _count_edges, heap, call, ret, pre, tally>>

\* A mutating call made while no generator is in the middle of its run; the
\* caller has dropped the generator it held.
Between_add_node(self, node) ==
    /\ gen.t.status # "running"
    /\ call' = [op |-> "add_node", self |-> self, args |-> <<node>>]
    /\ Effect(self, add_node(Adj(self), _count_edges[self], node))
    /\ gen' = NoGenerator
    /\ UNCHANGED tally

Between_remove_node(self, node) ==
    /\ gen.t.status # "running"
    /\ call' = [op |-> "remove_node", self |-> self, args |-> <<node>>]
    /\ Effect(self, remove_node(Adj(self), _count_edges[self], node))
    /\ gen' = NoGenerator
    /\ UNCHANGED tally

Between_construct_edge(self, node1, node2, edge) ==
    /\ gen.t.status # "running"
    /\ call' = [op |-> "construct_edge", self |-> self, args |-> <<node1, node2, edge>>]
    /\ Effect(self, construct_edge(Adj(self), _count_edges[self], node1, node2, edge))
    /\ gen' = NoGenerator
    /\ UNCHANGED tally

\* construct_edge and remove_edge calls whose successes the caller counts, as
\* long as fewer than MaxTally have succeeded.
Counted_construct_edge(self, node1, node2, edge) ==
    /\ tally.k + tally.r < MaxTally
    /\ call' = [op |-> "construct_edge", self |-> self, args |-> <<node1, node2, edge>>]
    /\ LET r == construct_edge(Adj(self), _count_edges[self], node1, node2, edge) IN
       /\ Effect(self, r)
       /\ tally' = IF r.outcome = "ok" THEN [tally EXCEPT !.k = @ + 1] ELSE tally
    /\ UNCHANGED gen

Counted_remove_edge(self, node1, node2) ==
    /\ tally.k + tally.r < MaxTally
    /\ call' = [op |-> "remove_edge", self |-> self, args |-> <<node1, node2>>]
    /\ LET r == remove_edge(Adj(self), _count_edges[self], node1, node2) IN
       /\ Effect(self, r)
       /\ tally' = IF r.outcome = "ok" THEN [tally EXCEPT !.r = @ + 1] ELSE tally
    /\ UNCHANGED gen

\* Calls on the one graph g, over Nodes and Payloads.
Next ==
    \/ \E node \in Nodes : Call_add_node("g", node)
    \/ \E node \in Nodes : Call_remove_node("g", node)
    \/ \E node1 \in Nodes, node2 \in Nodes, edge \in Payloads :
           Call_construct_edge("g", node1, node2, edge)
    \/ \E node1 \in Nodes, node2 \in Nodes, edge \in Payloads :
           Call_assign_edge("g", node1, node2, edge)
    \/ \E node1 \in Nodes, node2 \in Nodes : Call_remove_edge("g", node1, node2)
    \/ Call_clear("g")
    \/ Call_count_edges("g")
    \/ \E node \in Nodes : Call_degree("g", node)
    \/ \E node \in Nodes : Call_neighbors("g", node)
    \/ Call_iter("g")
    \/ Call_dfs_node_iter("g")
    \/ Call_bfs_node_iter("g")

\* Calls on the two graphs g and h, over PairNodes and Payloads, with copy and
\* swap between them.
NextPair ==
    \/ \E self \in Graphs, node \in PairNodes : Call_add_node(self, node)
    \/ \E self \in Graphs, node \in PairNodes : Call_remove_node(self, node)
    \/ \E self \in Graphs, node1 \in PairNodes, node2 \in PairNodes, edge \in Payloads :
           Call_construct_edge(self, node1, node2, edge)
    \/ \E self \in Graphs, node1 \in PairNodes, node2 \in PairNodes, edge \in Payloads :
           Call_assign_edge(self, node1, node2, edge)
    \/ \E self \in Graphs, node1 \in PairNodes, node2 \in PairNodes :
           Call_remove_edge(self, node1, node2)
    \/ \E self \in Graphs : Call_clear(self)
    \/ \E self \in Graphs : Call_count_edges(self)
    \/ \E self \in Graphs, result \in Graphs : Call_copy(self, result)
    \/ \E self \in Graphs, other \in Graphs : Call_swap(self, other)
    \/ \E self \in Graphs : Call_dfs_node_iter(self)
    \/ \E self \in Graphs : Call_bfs_node_iter(self)

\* One history of g from the empty graph: add_node, construct_edge,
\* assign_edge and remove_edge only, the successful construct_edge and
\* remove_edge calls counted.
NextTally ==
    \/ \E node \in Nodes : Call_add_node("g", node)
    \/ \E node1 \in Nodes, node2 \in Nodes, edge \in Payloads :
           Counted_construct_edge("g", node1, node2, edge)
    \/ \E node1 \in Nodes, node2 \in Nodes, edge \in Payloads :
           Call_assign_edge("g", node1, node2, edge)
    \/ \E node1 \in Nodes, node2 \in Nodes : Counted_remove_edge("g", node1, node2)

\* add_node of a node value at most two above the number of nodes held: the
\* code only hashes and compares nodes for equality, so which values name the
\* nodes makes no difference as long as the insertion order can differ from
\* the order of the values, and a value can be passed over and added later.
Build_add_node(self, node) ==
    /\ node <= count_nodes(Adj(self)) + 2
    /\ Call_add_node(self, node)

\* Graphs of up to MaxTravNode nodes are built, one payload value for every
\* edge, and traversed.
NextTraversal ==
    \/ \E node \in TravNodes : Build_add_node("g", node)
    \/ \E node1 \in TravNodes, node2 \in TravNodes :
           Call_construct_edge("g", node1, node2, 1)
    \/ Call_dfs_node_iter("g")
    \/ Call_bfs_node_iter("g")

\* The graph g is built and changed between traversals, and each generator is
\* stepped until it is exhausted.
NextRun ==
    \/ \E node \in Nodes : Between_add_node("g", node)
    \/ \E node \in Nodes : Between_remove_node("g", node)
    \/ \E node1 \in Nodes, node2 \in Nodes :
           Between_construct_edge("g", node1, node2, 1)
    \/ Start_dfs_node_iter("g")
    \/ Start_bfs_node_iter("g")
    \/ Step_dfs_node_iter
    \/ Step_bfs_node_iter

Spec == Init /\ [][Next]_vars

SpecPair == Init /\ [][NextPair]_vars

SpecTally == Init /\ [][NextTally]_vars

SpecTraversal == Init /\ [][NextTraversal]_vars

\* The caller that exhausts a generator keeps calling next() on it.
SpecRun ==
    /\ Init /\ [][NextRun]_vars
    /\ WF_vars(Step_dfs_node_iter) /\ WF_vars(Step_bfs_node_iter)

\* ================================================================= claims
\* Vocabulary of the claims.
AllNodes == Nodes \cup PairNodes \cup TravNodes

ErrorKinds == {"NodeExistsError", "NodeNotExistsError", "EdgeExistsError",
               "EdgeNotExistsError", "InvalidEdgeError"}

Mutators == {"add_node", "remove_node", "construct_edge", "assign_edge",
             "remove_edge", "clear"}

\* b is a key of a's neighbor map, without assuming the other direction.
Holds(d, a, b) == DictHas(d, a) /\ DictHas(DictGet(d, a), b)

Payload(d, a, b) == DictGet(DictGet(d, a), b)

NeighborSet(d, n) == DictKeySet(DictGet(d, n))

Degree(d, n) == Len(DictGet(d, n))

RECURSIVE SumOfSizes(_, _)
SumOfSizes(d, i) == IF i > Len(d) THEN 0 ELSE Len(d[i][2]) + SumOfSizes(d, i + 1)

\* The edges not incident to n are the same in both maps, payloads included.
SameEdgesAwayFrom(before, after, avoid) ==
    \A a \in AllNodes \ avoid, b \in AllNodes \ avoid :
        /\ Holds(after, a, b) <=> Holds(before, a, b)
        /\ Holds(before, a, b) => Payload(after, a, b) = Payload(before, a, b)

\* C1: in every reachable state of the two graphs, a's neighbor map holds b
\* with payload P exactly when b's holds a with the same P; has_edge is
\* symmetric; the asserts of construct_edge, assign_edge and remove_edge do
\* not fail.
C1_Symmetry ==
    /\ \A x \in Graphs, a \in AllNodes, b \in AllNodes :
          /\ Holds(Adj(x), a, b) <=> Holds(Adj(x), b, a)
          /\ Holds(Adj(x), a, b) => Payload(Adj(x), a, b) = Payload(Adj(x), b, a)
          /\ has_edge(Adj(x), a, b) = has_edge(Adj(x), b, a)
    /\ call.op \in {"construct_edge", "assign_edge", "remove_edge"}
          => ret.outcome # "AssertionError"

C1_Witness ==
    /\ call.op = "assign_edge" /\ ret.outcome = "ok"
    /\ Payload(PreAdj(call.self), call.args[1], call.args[2]) # call.args[3]
    /\ Payload(Adj(call.self), call.args[1], call.args[2]) = call.args[3]
    /\ Payload(Adj(call.self), call.args[2], call.args[1]) = call.args[3]

\* C2: in every reachable state of the two graphs, each graph's counter is
\* half the sum of its neighbor-map sizes and not negative, and count_edges()
\* returns it without its assert failing.
C2_EdgeCounter ==
    /\ \A x \in Graphs :
          /\ 2 * _count_edges[x] = SumOfSizes(Adj(x), 1)
          /\ _count_edges[x] >= 0
    /\ call.op = "count_edges"
          => ret.outcome = "ok" /\ ret.value = _count_edges[call.self]

C2_Witness ==
    /\ call.op = "swap" /\ call.self # call.args[1]
    /\ _count_edges[call.self] = 1
    /\ _count_edges[call.args[1]] = 0
    /\ PreCount(call.self) = 0

\* C3: a call of add_node, remove_node, construct_edge, assign_edge,
\* remove_edge, degree or neighbors that fails with one of the five error
\* kinds leaves the adjacency map and the counter as they were before it.
C3_NoPartialMutation ==
    (/\ call.op \in {"add_node", "remove_node", "construct_edge", "assign_edge",
                     "remove_edge", "degree", "neighbors"}
     /\ ret.outcome \in ErrorKinds)
        => /\ Adj(call.self) = PreAdj(call.self)
           /\ _count_edges[call.self] = PreCount(call.self)

C3_Witness ==
    /\ call.op = "construct_edge" /\ ret.outcome = "EdgeExistsError"
    /\ _count_edges[call.self] = 2

\* C4: remove_node(n) on a graph holding n succeeds, lowers count_nodes() by 1
\* and count_edges() by n's former degree, drops n from every former
\* neighbor's map (each loses exactly one neighbor), and changes no other node
\* and no edge away from n; on a graph not holding n it fails with
\* NodeNotExistsError.
C4_RemoveNode ==
    call.op = "remove_node" =>
        LET n == call.args[1]
            before == PreAdj(call.self)
            after == Adj(call.self)
        IN  IF ~contains(before, n)
            THEN ret.outcome = "NodeNotExistsError"
            ELSE /\ ret.outcome = "ok"
                 /\ ~contains(after, n)
                 /\ count_nodes(after) = count_nodes(before) - 1
                 /\ _count_edges[call.self] = PreCount(call.self) - Degree(before, n)
                 /\ DictKeySet(after) = DictKeySet(before) \ {n}
                 /\ \A m \in DictKeySet(after) :
                       /\ NeighborSet(after, m) = NeighborSet(before, m) \ {n}
                       /\ m \in NeighborSet(before, n)
                             => Degree(after, m) = Degree(before, m) - 1
                       /\ m \notin NeighborSet(before, n)
                             => Degree(after, m) = Degree(before, m)
                 /\ SameEdgesAwayFrom(before, after, {n})

C4_Witness ==
    /\ call.op = "remove_node" /\ ret.outcome = "ok"
    /\ Degree(PreAdj(call.self), call.args[1]) = 2
    /\ PreCount(call.self) = 3
    /\ _count_edges[call.self] = 1

\* C5: construct_edge(a, b, p) with a # b, both present and not adjacent,
\* succeeds; then has_edge holds both ways, both directions store p, the
\* counter and the two degrees are each one higher, and the node set and all
\* other edges are as before.
C5_ConstructEdge ==
    (/\ call.op = "construct_edge"
     /\ call.args[1] # call.args[2]
     /\ contains(PreAdj(call.self), call.args[1])
     /\ contains(PreAdj(call.self), call.args[2])
     /\ ~has_edge(PreAdj(call.self), call.args[1], call.args[2])
     /\ ~has_edge(PreAdj(call.self), call.args[2], call.args[1]))
        => LET a == call.args[1]
               b == call.args[2]
               p == call.args[3]
               before == PreAdj(call.self)
               after == Adj(call.self)
           IN  /\ ret.outcome = "ok"
               /\ has_edge(after, a, b) /\ has_edge(after, b, a)
               /\ Payload(after, a, b) = p /\ Payload(after, b, a) = p
               /\ _count_edges[call.self] = PreCount(call.self) + 1
               /\ Degree(after, a) = Degree(before, a) + 1
               /\ Degree(after, b) = Degree(before, b) + 1
               /\ DictKeys(after) = DictKeys(before)
               /\ \A x \in AllNodes, y \in AllNodes :
                     {x, y} # {a, b} =>
                         /\ Holds(after, x, y) <=> Holds(before, x, y)
                         /\ Holds(before, x, y)
                               => Payload(after, x, y) = Payload(before, x, y)

C5_Witness ==
    /\ call.op = "construct_edge" /\ ret.outcome = "ok"
    /\ PreCount(call.self) = 2
    /\ _count_edges[call.self] = 3
    /\ call.args[3] = 2

\* C6: construct_edge(a, a, p) on a graph holding a fails with
\* InvalidEdgeError and leaves the counter and the adjacency map unchanged.
C6_SelfLoopRejected ==
    (/\ call.op = "construct_edge"
     /\ call.args[1] = call.args[2]
     /\ contains(PreAdj(call.self), call.args[1]))
        => /\ ret.outcome = "InvalidEdgeError"
           /\ _count_edges[call.self] = PreCount(call.self)
           /\ Adj(call.self) = PreAdj(call.self)

C6_Witness ==
    /\ call.op = "construct_edge" /\ ret.outcome = "InvalidEdgeError"
    /\ call.args[1] = call.args[2]
    /\ Degree(Adj(call.self), call.args[1]) = 2

\* C7: assign_edge(a, a, p) and remove_edge(a, a) on a graph holding a fail
\* with InvalidEdgeError and with no other error kind.
C7_SelfLoopUpdateRemove ==
    (/\ call.op \in {"assign_edge", "remove_edge"}
     /\ call.args[1] = call.args[2]
     /\ contains(PreAdj(call.self), call.args[1]))
        => ret.outcome = "InvalidEdgeError"

\* C8: a complete run of dfs_node_iter() and of bfs_node_iter() ends normally
\* and emits every node of the graph exactly once and nothing else, so as many
\* nodes as count_nodes(), whatever the number of components.
C8_TraversalCoverage ==
    call.op \in {"dfs_node_iter", "bfs_node_iter"} =>
        /\ ret.outcome = "ok"
        /\ Len(ret.value) = count_nodes(Adj(call.self))
        /\ {ret.value[i] : i \in 1..Len(ret.value)} = DictKeySet(Adj(call.self))
        /\ \A i \in 1..Len(ret.value), j \in 1..Len(ret.value) :
              ret.value[i] = ret.value[j] => i = j

\* A triangle: the traversal pushes a node more than once.
C8_Witness ==
    /\ call.op = "dfs_node_iter" /\ ret.outcome = "ok"
    /\ count_nodes(Adj(call.self)) = 3
    /\ _count_edges[call.self] = 3
    /\ Len(ret.value) = 3

\* C9: iterating the edges emits each undirected edge exactly once, as
\* (u, v, payload) with the stored payload, never both (u, v) and (v, u), and
\* count_edges() triples in all.
C9_EdgeEnumeration ==
    call.op = "__iter__" =>
        LET d == Adj(call.self)
            out == ret.value
        IN  /\ ret.outcome = "ok"
            /\ Len(out) = _count_edges[call.self]
            /\ \A k \in 1..Len(out) :
                  /\ has_edge(d, out[k][1], out[k][2])
                  /\ out[k][3] = Payload(d, out[k][1], out[k][2])
            /\ \A k \in 1..Len(out), l \in 1..Len(out) :
                  {out[k][1], out[k][2]} = {out[l][1], out[l][2]} => k = l
            /\ \A a \in AllNodes, b \in AllNodes :
                  has_edge(d, a, b)
                      => \E k \in 1..Len(out) : {out[k][1], out[k][2]} = {a, b}

C9_Witness ==
    /\ call.op = "__iter__" /\ ret.outcome = "ok"
    /\ Len(ret.value) = 3
    /\ \E k \in 1..3 : ret.value[k][3] = 2

\* C10: copy() yields a graph with the same nodes, neighbor maps, payloads and
\* counter and leaves the original as it was; and every mutating call on one
\* graph leaves the other graph's adjacency map and counter unchanged, so
\* mutating the copy never shows in the original nor the reverse.
C10_CopyIndependence ==
    /\ call.op = "copy" =>
          /\ Adj(call.args[1]) = PreAdj(call.self)
          /\ _count_edges[call.args[1]] = PreCount(call.self)
          /\ Adj(call.self) = PreAdj(call.self)
          /\ _count_edges[call.self] = PreCount(call.self)
    /\ call.op \in Mutators =>
          \A y \in Graphs \ {call.self} :
              /\ Adj(y) = PreAdj(y)
              /\ _count_edges[y] = PreCount(y)

\* A mutation of one graph while the other holds an equal, non-empty map.
C10_Witness ==
    /\ call.op \in Mutators /\ ret.outcome = "ok"
    /\ PreAdj("g") = PreAdj("h")
    /\ PreCount(call.self) = 1
    /\ Adj("g") # Adj("h")

\* C11: in every reachable state of the two graphs, no node is a key of its
\* own neighbor map.
C11_NoSelfLoops ==
    \A x \in Graphs, a \in AllNodes : ~Holds(Adj(x), a, a)

\* A self-loop was asked for on a node that has a neighbor.
C11_Witness ==
    /\ call.op = "construct_edge" /\ call.args[1] = call.args[2]
    /\ contains(Adj(call.self), call.args[1])
    /\ Degree(Adj(call.self), call.args[1]) = 1

\* C12: in every reachable state of the two graphs, every key of a neighbor
\* map is a top-level node, so remove_node and the traversals never fail on a
\* missing key.
C12_NodePresence ==
    /\ \A x \in Graphs, a \in AllNodes, b \in AllNodes :
          Holds(Adj(x), a, b) => contains(Adj(x), b)
    /\ call.op \in {"remove_node", "dfs_node_iter", "bfs_node_iter"}
          => ret.outcome \notin {"KeyError", "RuntimeError"}

\* A node with a neighbor was removed and the neighbor stays.
C12_Witness ==
    /\ call.op = "remove_node" /\ ret.outcome = "ok"
    /\ Degree(PreAdj(call.self), call.args[1]) = 1
    /\ count_nodes(Adj(call.self)) = 1

\* C13: for a # b, the three edge operations raise NodeNotExistsError when an
\* endpoint is absent and create no node; with both present, construct_edge
\* raises EdgeExistsError on an adjacent pair, in either argument order, and
\* assign_edge and remove_edge raise EdgeNotExistsError on a pair that is not
\* adjacent.
C13_ExistenceErrors ==
    (call.op \in {"construct_edge", "assign_edge", "remove_edge"}
        /\ call.args[1] # call.args[2])
        => LET a == call.args[1]
               b == call.args[2]
               before == PreAdj(call.self)
               adjacent == Holds(before, a, b) \/ Holds(before, b, a)
           IN  IF ~contains(before, a) \/ ~contains(before, b)
               THEN /\ ret.outcome = "NodeNotExistsError"
                    /\ DictKeys(Adj(call.self)) = DictKeys(before)
               ELSE /\ (call.op = "construct_edge" /\ adjacent)
                          => ret.outcome = "EdgeExistsError"
                    /\ (call.op # "construct_edge" /\ ~adjacent)
                          => ret.outcome = "EdgeNotExistsError"

\* An endpoint is missing while the other has an edge.
C13_Witness ==
    /\ call.op = "construct_edge" /\ ret.outcome = "NodeNotExistsError"
    /\ contains(Adj(call.self), call.args[1])
    /\ ~contains(Adj(call.self), call.args[2])
    /\ Degree(Adj(call.self), call.args[1]) = 1

\* C14: add_node(n) on a graph without n succeeds, appends n with an empty
\* neighbor map and changes nothing else; on a graph holding n it raises
\* NodeExistsError and n keeps its neighbor map.
C14_AddNodeStrict ==
    call.op = "add_node" =>
        LET n == call.args[1]
            before == PreAdj(call.self)
            after == Adj(call.self)
        IN  IF ~contains(before, n)
            THEN /\ ret.outcome = "ok"
                 /\ contains(after, n)
                 /\ degree(after, _count_edges[call.self], n).value = 0
                 /\ count_nodes(after) = count_nodes(before) + 1
                 /\ \A m \in DictKeySet(before) :
                       contains(after, m) /\ DictGet(after, m) = DictGet(before, m)
                 /\ DictKeySet(after) = DictKeySet(before) \cup {n}
                 /\ _count_edges[call.self] = PreCount(call.self)
            ELSE /\ ret.outcome = "NodeExistsError"
                 /\ DictGet(after, n) = DictGet(before, n)
                 /\ after = before

\* A duplicate add of a node that has two neighbors.
C14_Witness ==
    /\ call.op = "add_node" /\ ret.outcome = "NodeExistsError"
    /\ Degree(Adj(call.self), call.args[1]) = 2

\* C15: assign_edge(a, b, p) on an existing edge, a # b, stores p in both
\* directions and leaves the counter, the nodes, every neighbor set and
\* degree, and the payloads of all other edges unchanged.
C15_AssignEdgeFrame ==
    (/\ call.op = "assign_edge"
     /\ call.args[1] # call.args[2]
     /\ Holds(PreAdj(call.self), call.args[1], call.args[2]))
        => LET a == call.args[1]
               b == call.args[2]
               before == PreAdj(call.self)
               after == Adj(call.self)
           IN  /\ ret.outcome = "ok"
               /\ Payload(after, a, b) = call.args[3]
               /\ Payload(after, b, a) = call.args[3]
               /\ _count_edges[call.self] = PreCount(call.self)
               /\ count_nodes(after) = count_nodes(before)
               /\ DictKeys(after) = DictKeys(before)
               /\ \A m \in DictKeySet(before) :
                     /\ DictKeys(DictGet(after, m)) = DictKeys(DictGet(before, m))
                     /\ Degree(after, m) = Degree(before, m)
               /\ \A x \in AllNodes, y \in AllNodes :
                     (Holds(before, x, y) /\ {x, y} # {a, b})
                         => Payload(after, x, y) = Payload(before, x, y)

\* The payload of one edge of a triangle is replaced by another value.
C15_Witness ==
    /\ call.op = "assign_edge" /\ ret.outcome = "ok"
    /\ _count_edges[call.self] = 3
    /\ Payload(PreAdj(call.self), call.args[1], call.args[2]) # call.args[3]

\* C16: remove_edge(a, b) on an existing edge, a # b, in either argument
\* order, removes the pair from both neighbor maps, lowers the counter and
\* both degrees by one, keeps both nodes, and leaves all other edges
\* unchanged.
C16_RemoveEdge ==
    (/\ call.op = "remove_edge"
     /\ call.args[1] # call.args[2]
     /\ (Holds(PreAdj(call.self), call.args[1], call.args[2])
            \/ Holds(PreAdj(call.self), call.args[2], call.args[1])))
        => LET a == call.args[1]
               b == call.args[2]
               before == PreAdj(call.self)
               after == Adj(call.self)
           IN  /\ ret.outcome = "ok"
               /\ ~Holds(after, a, b) /\ ~Holds(after, b, a)
               /\ ~has_edge(after, a, b) /\ ~has_edge(after, b, a)
               /\ _count_edges[call.self] = PreCount(call.self) - 1
               /\ Degree(after, a) = Degree(before, a) - 1
               /\ Degree(after, b) = Degree(before, b) - 1
               /\ DictKeys(after) = DictKeys(before)
               /\ \A x \in AllNodes, y \in AllNodes :
                     {x, y} # {a, b} =>
                         /\ Holds(after, x, y) <=> Holds(before, x, y)
                         /\ Holds(before, x, y)
                               => Payload(after, x, y) = Payload(before, x, y)

\* One edge of a triangle is removed, its larger endpoint named first.
C16_Witness ==
    /\ call.op = "remove_edge" /\ ret.outcome = "ok"
    /\ PreCount(call.self) = 3
    /\ call.args[1] > call.args[2]
    /\ DictKeys(DictGet(PreAdj(call.self), call.args[2]))[1] = call.args[1]

\* C17, in a state: after self.swap(other) each graph refers to the very dict
\* object and holds the counter the other had, and no dict changed; no two
\* graphs ever refer to one dict object; a graph swapped with itself is as
\* before.
C17_SwapState ==
    /\ \A x \in Graphs, y \in Graphs : x # y => _adjacency_list[x] # _adjacency_list[y]
    /\ call.op = "swap" =>
          LET other == call.args[1] IN
          /\ _adjacency_list[call.self] = pre.adjacency_list[other]
          /\ _adjacency_list[other] = pre.adjacency_list[call.self]
          /\ Adj(call.self) = PreAdj(other)
          /\ Adj(other) = PreAdj(call.self)
          /\ _count_edges[call.self] = PreCount(other)
          /\ _count_edges[other] = PreCount(call.self)
          /\ heap = pre.heap
          /\ {_adjacency_list[x] : x \in Graphs} = {pre.adjacency_list[x] : x \in Graphs}
          /\ call.self = other => Snapshot = pre

\* C17, in a step: a swap of the two graphs that follows a swap of the same
\* two graphs restores the fields and dicts the first swap found, and a
\* mutating call on one graph leaves the other graph's map and counter alone.
C17_SwapStep ==
    /\ (/\ call.op = "swap"
        /\ call'.op = "swap"
        /\ {call'.self, call'.args[1]} = {call.self, call.args[1]})
          => /\ _adjacency_list' = pre.adjacency_list
             /\ _count_edges' = pre.count_edges
             /\ heap' = pre.heap
    /\ (call.op = "swap" /\ call'.op \in Mutators)
          => \A y \in Graphs \ {call'.self} :
                /\ heap'[_adjacency_list'[y]] = heap[_adjacency_list[y]]
                /\ _count_edges'[y] = _count_edges[y]

\* C17: swap exchanges the two graphs' adjacency maps and counters without
\* copying or sharing, later mutations of one graph do not reach the other,
\* and swapping twice, or a graph with itself, restores the original states.
C17_Swap == []C17_SwapState /\ [][C17_SwapStep]_vars

\* Two graphs with different, non-empty contents have just been swapped.
C17_Witness ==
    /\ call.op = "swap" /\ call.self # call.args[1]
    /\ count_nodes(Adj(call.self)) = 2
    /\ count_nodes(Adj(call.args[1])) = 1
    /\ _count_edges[call.self] = 1
    /\ Adj(call.self) = PreAdj(call.args[1])

\* C18: in a history from the empty graph made of add_node, construct_edge,
\* assign_edge and remove_edge calls, failing ones included, the counter
\* equals the number of construct_edge calls that succeeded minus the number
\* of remove_edge calls that succeeded, and is not negative.
C18_EdgeCountHistory ==
    /\ _count_edges["g"] = tally.k - tally.r
    /\ count_edges(Adj("g"), _count_edges["g"]).outcome = "ok"
    /\ count_edges(Adj("g"), _count_edges["g"]).value = tally.k - tally.r
    /\ tally.k - tally.r >= 0

\* Three edges constructed and two removed, the last call a failing one.
C18_Witness ==
    /\ tally.k = 3 /\ tally.r = 2
    /\ _count_edges["g"] = 1
    /\ call.op = "assign_edge" /\ ret.outcome = "EdgeNotExistsError"

Emitted(out, i) == {out[j] : j \in 1..i}

\* The connected component of the nodes in S: S closed under neighbors.
RECURSIVE Reach(_, _)
Reach(d, S) ==
    LET T == S \cup UNION {NeighborSet(d, n) : n \in S}
    IN  IF T = S THEN S ELSE Reach(d, T)

Component(d, n) == Reach(d, {n})

\* The first node in insertion order that is not in S.
FirstNotIn(d, S) ==
    LET rest == SelectSeq(DictKeys(d), LAMBDA n : n \notin S) IN rest[1]

\* The positions before i whose node still has a neighbor that is not among
\* the first i - 1 emitted nodes.
Unfinished(d, out, i) ==
    {j \in 1..(i - 1) : ~(NeighborSet(d, out[j]) \subseteq Emitted(out, i - 1))}

Latest(P) == CHOOSE j \in P : \A k \in P : k <= j

\* C20: dfs_node_iter() emits a depth-first preorder: an emitted node is a
\* neighbor of the most recently emitted node that still had a neighbor not yet
\* emitted at that moment; when no emitted node had one, it is a component root,
\* the first node in insertion order not yet emitted; and the nodes of one
\* connected component are emitted contiguously.
C20_DfsPreorder ==
    call.op = "dfs_node_iter" =>
        LET d == Adj(call.self)
            out == ret.value
        IN  /\ ret.outcome = "ok"
            /\ Emitted(out, Len(out)) = DictKeySet(d)
            /\ \A i \in 1..Len(out) :
                  LET P == Unfinished(d, out, i) IN
                  IF P = {}
                  THEN out[i] = FirstNotIn(d, Emitted(out, i - 1))
                  ELSE out[i] \in NeighborSet(d, out[Latest(P)])
            /\ \A i \in 1..Len(out), k \in 1..Len(out) :
                  (i < k /\ out[k] \in Component(d, out[i]))
                      => \A j \in i..k : out[j] \in Component(d, out[i])

\* Four nodes joined by four edges, so with a cycle, traversed in one
\* component with a step back: some emitted node is no neighbor of the one
\* emitted just before it.
C20_Witness ==
    /\ call.op = "dfs_node_iter" /\ ret.outcome = "ok"
    /\ Len(ret.value) = 4
    /\ _count_edges[call.self] = 4
    /\ Component(Adj(call.self), ret.value[1]) = DictKeySet(Adj(call.self))
    /\ \E i \in 2..4 : ret.value[i] \notin NeighborSet(Adj(call.self), ret.value[i - 1])

\* The number of edges on a shortest path from a node of S to n, S being the
\* nodes within k edges of the start; -1 when there is no path.
RECURSIVE Distance(_, _, _, _)
Distance(d, S, n, k) ==
    IF n \in S THEN k
    ELSE LET T == S \cup UNION {NeighborSet(d, m) : m \in S}
         IN  IF T = S THEN -1 ELSE Distance(d, T, n, k + 1)

\* The position at which the component of out[i] starts in out.
RootPosition(d, out, i) ==
    CHOOSE r \in 1..i :
        /\ out[r] \in Component(d, out[i])
        /\ \A q \in 1..(r - 1) : out[q] \notin Component(d, out[i])

\* C21: bfs_node_iter() emits level order per component: a component root is
\* the first node in insertion order not yet emitted and is taken only when the
\* components of all emitted nodes are complete, the nodes of one component are
\* emitted contiguously, and within a component the distance from its root
\* never decreases along the emitted sequence.
C21_BfsLevelOrder ==
    call.op = "bfs_node_iter" =>
        LET d == Adj(call.self)
            out == ret.value
        IN  /\ ret.outcome = "ok"
            /\ Emitted(out, Len(out)) = DictKeySet(d)
            /\ \A i \in 1..Len(out) :
                  IF RootPosition(d, out, i) = i
                  THEN /\ out[i] = FirstNotIn(d, Emitted(out, i - 1))
                       /\ Unfinished(d, out, i) = {}
                  ELSE Distance(d, {out[RootPosition(d, out, i)]}, out[i - 1], 0)
                           <= Distance(d, {out[RootPosition(d, out, i)]}, out[i], 0)
            /\ \A i \in 1..Len(out), k \in 1..Len(out) :
                  (i < k /\ out[k] \in Component(d, out[i]))
                      => \A j \in i..k : out[j] \in Component(d, out[i])

\* Four nodes in one component with a cycle. The node emitted last is two
\* edges away from the root and a neighbor of the node emitted second, yet the
\* root's other neighbor is emitted before it.
C21_Witness ==
    /\ call.op = "bfs_node_iter" /\ ret.outcome = "ok"
    /\ Len(ret.value) = 4
    /\ _count_edges[call.self] = 4
    /\ Component(Adj(call.self), ret.value[1]) = DictKeySet(Adj(call.self))
    /\ Distance(Adj(call.self), {ret.value[1]}, ret.value[4], 0) = 2
    /\ ret.value[4] \in NeighborSet(Adj(call.self), ret.value[2])

\* A generator that has been exhausted emitted what the caller's previous
\* generator of the same method emitted on the same graph.
C22_SameSequence ==
    (gen.t.status = "done" /\ gen.prev # <<>>) => gen.t.yielded = gen.prev[1]

\* The generator has run through: no root is left and its stack or queue is
\* empty.
C22_Exhausted ==
    /\ gen.t.status = "done"
    /\ gen.t.pending = <<>>
    /\ gen.t.root_idx > Len(Adj(gen.self))
    /\ Adj(gen.self) = gen.graph

\* C22: on a graph that is not mutated during the traversal, a generator of
\* dfs_node_iter() or bfs_node_iter() that is stepped on eventually finishes,
\* its stack or queue empty and every root taken, and a fresh call emits the
\* same sequence as the call before it.
C22_Termination ==
    /\ [](C22_SameSequence)
    /\ (gen.t.status = "running") ~> C22_Exhausted

\* A second traversal of the triangle, where nodes are pushed more than once,
\* has finished.
C22_Witness ==
    /\ gen.t.status = "done" /\ gen.prev # <<>>
    /\ Len(gen.t.yielded) = 3
    /\ _count_edges[gen.self] = 3
====
